---------------------------- MODULE Spec2Model ----------------------------
(***************************************************************************)
(* The GraphQL document parser of juniper (src/parser/document.rs) as a   *)
(* family of operators over the parser's token vector, with the   *)
(* Rocket form handler (src/integrations/rocket_handlers.rs) at the end.  *)
(* A parser value                                                          *)
(* `p` is the vector of spanned tokens not yet consumed; its head is the  *)
(* lookahead and its last element is the EndOfFile token.  Every parse    *)
(* function returns either                                                *)
(*   [ok |-> TRUE,  v |-> value, p |-> parser after the call]   or        *)
(*   [ok |-> FALSE, e |-> spanned ParseError].                            *)
(* An Option is a sequence of length 0 (None) or 1 (Some).                *)
(***************************************************************************)
EXTENDS Integers, Sequences, FiniteSets, TLC

VARIABLES source, typed, result

vars == <<source, typed, result>>

(***************************************************************************)
(* Bounds of the exploration.                                              *)
(***************************************************************************)
MaxEdits == 2

MaxDefinitions == 3

MaxItems == 4

(***************************************************************************)
(* Option, Spanning, results.                                              *)
(***************************************************************************)
None == <<>>

Some(x) == <<x>>

is_some(o) == Len(o) = 1

start_end(s, e, x) == [start |-> s, end |-> e, item |-> x]

zero_width(pos, x) == [start |-> pos, end |-> pos, item |-> x]

map(s, x) == [start |-> s.start, end |-> s.end, item |-> x]

Ok(x, p) == [ok |-> TRUE, v |-> x, p |-> p]

Err(e) == [ok |-> FALSE, e |-> e]

(***************************************************************************)
(* Tokens and parse errors.                                                *)
(***************************************************************************)
Name(n) == [kind |-> "Name", text |-> n]

Scalar(s) == [kind |-> "Scalar", text |-> s]

Tok(k) == [kind |-> k, text |-> ""]

CurlyOpen == Tok("CurlyOpen")

CurlyClose == Tok("CurlyClose")

ParenOpen == Tok("ParenOpen")

ParenClose == Tok("ParenClose")

BracketOpen == Tok("BracketOpen")

BracketClose == Tok("BracketClose")

Ellipsis == Tok("Ellipsis")

Colon == Tok("Colon")

Equals == Tok("Equals")

At == Tok("At")

Dollar == Tok("Dollar")

ExclamationMark == Tok("ExclamationMark")

Pipe == Tok("Pipe")

EndOfFile == Tok("EndOfFile")

UnexpectedToken(t) == [kind |-> "UnexpectedToken", token |-> t]

UnexpectedEndOfFile == [kind |-> "UnexpectedEndOfFile", token |-> EndOfFile]

(***************************************************************************)
(* Lexer: the source text is kept as its sequence of lexemes.  The lexer   *)
(* classifies each lexeme, gives it its byte span (one separator between   *)
(* lexemes) and ends the vector with a zero-width EndOfFile at the end of  *)
(* the input.                                                              *)
(***************************************************************************)
Names == {"query", "mutation", "fragment", "on", "a"}

Token(l) ==
    CASE l = "{" -> CurlyOpen
      [] l = "}" -> CurlyClose
      [] l = "(" -> ParenOpen
      [] l = ")" -> ParenClose
      [] l = "[" -> BracketOpen
      [] l = "]" -> BracketClose
      [] l = "..." -> Ellipsis
      [] l = ":" -> Colon
      [] l = "=" -> Equals
      [] l = "@" -> At
      [] l = "$" -> Dollar
      [] l = "!" -> ExclamationMark
      [] l = "|" -> Pipe
      [] l = "1" -> Scalar(l)
      [] OTHER -> Name(l)

Width(l) ==
    CASE l = "..." -> 3
      [] l = "on" -> 2
      [] l = "query" -> 5
      [] l \in {"mutation", "fragment"} -> 8
      [] OTHER -> 1

RECURSIVE LexFrom(_, _)
LexFrom(src, pos) ==
    IF src = <<>>
    THEN << zero_width(pos, EndOfFile) >>
    ELSE LET e == pos + Width(Head(src))
         IN  << start_end(pos, e, Token(Head(src))) >>
               \o LexFrom(Tail(src), IF Len(src) = 1 THEN e ELSE e + 1)

Lexer(src) == LexFrom(src, 0)

(***************************************************************************)
(* Parser driver: one token of lookahead over the lexed vector.           *)
(***************************************************************************)
peek(p) == Head(p)

next(p) ==
    IF Len(p) = 1
    THEN Err(start_end(peek(p).start, peek(p).end, UnexpectedEndOfFile))
    ELSE Ok(Head(p), Tail(p))

(***************************************************************************)
(* try!(r): an error result leaves the function at once, a success is     *)
(* handed to the rest of the function body K.                              *)
(***************************************************************************)
try(r, K(_)) == IF r.ok THEN K(r) ELSE r

next_unexpected(p) ==
    try(next(p), LAMBDA n : Err(map(n.v, UnexpectedToken(n.v.item))))

expect(p, expected) ==
    IF peek(p).item # expected THEN next_unexpected(p) ELSE next(p)

expect_name(p) ==
    IF peek(p).item.kind = "Name"
    THEN try(next(p), LAMBDA n : Ok(map(n.v, n.v.item.text), n.p))
    ELSE next_unexpected(p)

skip(p, expected) ==
    IF peek(p).item = expected
    THEN try(next(p), LAMBDA n : Ok(Some(n.v), n.p))
    ELSE Ok(None, p)

spanning(v) ==
    IF v = <<>>
    THEN None
    ELSE Some(start_end(v[1].start, v[Len(v)].end, v))

(***************************************************************************)
(* The parse functions call one another; the callee is named by a tag and  *)
(* applied by `call`, also where it is passed to a list combinator.        *)
(***************************************************************************)
RECURSIVE call(_, _)
RECURSIVE delimited_nonempty_loop(_, _, _, _, _)
RECURSIVE delimited_loop(_, _, _, _, _)
RECURSIVE parse_directives_loop(_, _)

delimited_nonempty_loop(p, f, closing, start_pos, items) ==
    try(call(f, p), LAMBDA it :
    try(skip(it.p, closing), LAMBDA c :
        IF is_some(c.v)
        THEN Ok(start_end(start_pos, c.v[1].end, Append(items, it.v)), c.p)
        ELSE delimited_nonempty_loop(c.p, f, closing, start_pos,
                                     Append(items, it.v))))

delimited_nonempty_list(p, opening, f, closing) ==
    try(expect(p, opening), LAMBDA o :
        delimited_nonempty_loop(o.p, f, closing, o.v.start, <<>>))

unlocated_delimited_nonempty_list(p, opening, f, closing) ==
    delimited_nonempty_list(p, opening, f, closing)

delimited_loop(p, f, closing, start_pos, items) ==
    try(skip(p, closing), LAMBDA c :
        IF is_some(c.v)
        THEN Ok(start_end(start_pos, c.v[1].end, items), c.p)
        ELSE try(call(f, c.p), LAMBDA it :
                 delimited_loop(it.p, f, closing, start_pos,
                                Append(items, it.v))))

delimited_list(p, opening, f, closing) ==
    try(expect(p, opening), LAMBDA o :
        delimited_loop(o.p, f, closing, o.v.start, <<>>))

(***************************************************************************)
(* Value literals (parser/value.rs).                                       *)
(***************************************************************************)
parse_variable_literal(p) ==
    try(expect(p, Dollar), LAMBDA d :
    try(expect_name(d.p), LAMBDA n :
        Ok(start_end(d.v.start, n.v.end,
                     [kind |-> "Variable", name |-> n.v.item]), n.p)))

parse_object_field(p, is_constant) ==
    try(expect_name(p), LAMBDA key :
    try(expect(key.p, Colon), LAMBDA c :
    try(call(IF is_constant THEN "parse_value_literal_constant"
                            ELSE "parse_value_literal", c.p), LAMBDA value :
        Ok(start_end(key.v.start, value.v.end, <<key.v, value.v>>),
           value.p))))

parse_list_literal(p, is_constant) ==
    try(delimited_list(p, BracketOpen,
                       IF is_constant THEN "parse_value_literal_constant"
                                      ELSE "parse_value_literal",
                       BracketClose), LAMBDA l :
        Ok(map(l.v, [kind |-> "List", items |-> l.v.item]), l.p))

parse_object_literal(p, is_constant) ==
    try(delimited_list(p, CurlyOpen,
                       IF is_constant THEN "parse_object_field_constant"
                                      ELSE "parse_object_field",
                       CurlyClose), LAMBDA o :
        Ok(map(o.v, [kind |-> "Object",
                     items |-> [i \in 1..Len(o.v.item) |-> o.v.item[i].item]]),
           o.p))

parse_value_literal(p, is_constant) ==
    LET t == peek(p).item
    IN  CASE t = BracketOpen -> parse_list_literal(p, is_constant)
          [] t = CurlyOpen -> parse_object_literal(p, is_constant)
          [] t = Dollar /\ ~is_constant -> parse_variable_literal(p)
          [] t.kind = "Scalar" ->
                try(next(p), LAMBDA n :
                    Ok(map(n.v, [kind |-> "Scalar", text |-> n.v.item.text]),
                       n.p))
          [] t.kind = "Name" /\ t.text \in {"true", "false"} ->
                try(next(p), LAMBDA n :
                    Ok(map(n.v, [kind |-> "Boolean", text |-> n.v.item.text]),
                       n.p))
          [] t.kind = "Name" /\ t.text = "null" ->
                try(next(p), LAMBDA n : Ok(map(n.v, [kind |-> "Null"]), n.p))
          [] t.kind = "Name" /\ t.text \notin {"true", "false", "null"} ->
                try(next(p), LAMBDA n :
                    Ok(map(n.v, [kind |-> "Enum", text |-> n.v.item.text]),
                       n.p))
          [] OTHER -> next_unexpected(p)

(***************************************************************************)
(* Types.                                                                  *)
(***************************************************************************)
wrapped(inner) ==
    CASE inner.kind = "Named" -> [kind |-> "NonNullNamed", name |-> inner.name]
      [] inner.kind = "List" -> [kind |-> "NonNullList", inner |-> inner.inner]
      [] OTHER -> inner

wrap_non_null_repeated(p, inner) ==
    try(expect(p, ExclamationMark), LAMBDA x :
    try(skip(x.p, ExclamationMark), LAMBDA y :
        Ok(start_end(inner.start,
                     IF is_some(y.v) THEN y.v[1].end ELSE x.v.end,
                     wrapped(inner.item)), y.p)))

wrap_non_null(p, inner) ==
    try(expect(p, ExclamationMark), LAMBDA x :
        Ok(start_end(inner.start, x.v.end, wrapped(inner.item)), x.p))

parse_type(p) ==
    try(skip(p, BracketOpen), LAMBDA b :
    try(IF is_some(b.v)
        THEN try(call("parse_type", b.p), LAMBDA inner_type :
             try(expect(inner_type.p, BracketClose), LAMBDA c :
                 Ok(start_end(b.v[1].start, c.v.end,
                              [kind |-> "List", inner |-> inner_type.v.item]),
                    c.p)))
        ELSE try(expect_name(b.p), LAMBDA n :
                 Ok(map(n.v, [kind |-> "Named", name |-> n.v.item]), n.p)),
        LAMBDA parsed_type :
            IF peek(parsed_type.p).item = ExclamationMark
            THEN wrap_non_null(parsed_type.p, parsed_type.v)
            ELSE parsed_type))

(***************************************************************************)
(* Arguments, directives, variable definitions.                            *)
(***************************************************************************)
parse_argument(p) ==
    try(expect_name(p), LAMBDA name :
    try(expect(name.p, Colon), LAMBDA c :
    try(call("parse_value_literal", c.p), LAMBDA value :
        Ok(start_end(name.v.start, value.v.end, <<name.v, value.v>>),
           value.p))))

parse_arguments(p) ==
    IF peek(p).item # ParenOpen
    THEN Ok(None, p)
    ELSE try(delimited_nonempty_list(p, ParenOpen, "parse_argument",
                                     ParenClose), LAMBDA l :
             Ok(Some(map(l.v, [items |->
                    [i \in 1..Len(l.v.item) |-> l.v.item[i].item]])), l.p))

parse_directive(p) ==
    try(expect(p, At), LAMBDA a :
    try(expect_name(a.p), LAMBDA name :
    try(call("parse_arguments", name.p), LAMBDA arguments :
        Ok(start_end(a.v.start,
                     IF is_some(arguments.v) THEN arguments.v[1].end
                                             ELSE name.v.end,
                     [name |-> name.v, arguments |-> arguments.v]),
           arguments.p))))

parse_directives_loop(p, items) ==
    IF peek(p).item = At
    THEN try(call("parse_directive", p), LAMBDA d :
             parse_directives_loop(d.p, Append(items, d.v)))
    ELSE Ok(spanning(items), p)

parse_directives_empty_when_absent(p) ==
    IF peek(p).item # At
    THEN Ok(Some(zero_width(peek(p).start, <<>>)), p)
    ELSE parse_directives_loop(p, <<>>)

parse_directives(p) ==
    IF peek(p).item # At THEN Ok(None, p) ELSE parse_directives_loop(p, <<>>)

parse_variable_definition_non_constant(p) ==
    try(expect(p, Dollar), LAMBDA d :
    try(expect_name(d.p), LAMBDA var_name :
    try(expect(var_name.p, Colon), LAMBDA c :
    try(call("parse_type", c.p), LAMBDA var_type :
    try(skip(var_type.p, Equals), LAMBDA eq :
    try(IF is_some(eq.v)
        THEN try(call("parse_value_literal", eq.p), LAMBDA dv :
                 Ok(Some(dv.v), dv.p))
        ELSE Ok(None, eq.p), LAMBDA default_value :
        Ok(start_end(d.v.start,
                     IF is_some(default_value.v) THEN default_value.v[1].end
                                                 ELSE var_type.v.end,
                     << start_end(d.v.start, var_name.v.end, var_name.v.item),
                        [var_type |-> var_type.v,
                         default_value |-> default_value.v] >>),
           default_value.p)))))))

parse_variable_definition(p) ==
    try(expect(p, Dollar), LAMBDA d :
    try(expect_name(d.p), LAMBDA var_name :
    try(expect(var_name.p, Colon), LAMBDA c :
    try(call("parse_type", c.p), LAMBDA var_type :
    try(skip(var_type.p, Equals), LAMBDA eq :
    try(IF is_some(eq.v)
        THEN try(call("parse_value_literal_constant", eq.p), LAMBDA dv :
                 Ok(Some(dv.v), dv.p))
        ELSE Ok(None, eq.p), LAMBDA default_value :
        Ok(start_end(d.v.start,
                     IF is_some(default_value.v) THEN default_value.v[1].end
                                                 ELSE var_type.v.end,
                     << start_end(d.v.start, var_name.v.end, var_name.v.item),
                        [var_type |-> var_type.v,
                         default_value |-> default_value.v] >>),
           default_value.p)))))))

parse_variable_definitions(p) ==
    IF peek(p).item # ParenOpen
    THEN Ok(None, p)
    ELSE try(delimited_nonempty_list(p, ParenOpen, "parse_variable_definition",
                                     ParenClose), LAMBDA l :
             Ok(Some(map(l.v, [items |->
                    [i \in 1..Len(l.v.item) |-> l.v.item[i].item]])), l.p))

parse_operation_type_swapped(p) ==
    LET t == peek(p).item
    IN  CASE t = Name("query") ->
                try(next(p), LAMBDA n : Ok(map(n.v, "Mutation"), n.p))
          [] t = Name("mutation") ->
                try(next(p), LAMBDA n : Ok(map(n.v, "Query"), n.p))
          [] OTHER -> next_unexpected(p)

parse_operation_type(p) ==
    LET t == peek(p).item
    IN  CASE t = Name("query") ->
                try(next(p), LAMBDA n : Ok(map(n.v, "Query"), n.p))
          [] t = Name("mutation") ->
                try(next(p), LAMBDA n : Ok(map(n.v, "Mutation"), n.p))
          [] OTHER -> next_unexpected(p)

(***************************************************************************)
(* Selections.                                                             *)
(***************************************************************************)
parse_optional_selection_set(p) ==
    IF peek(p).item = CurlyOpen
    THEN try(call("parse_selection_set", p), LAMBDA s : Ok(Some(s.v), s.p))
    ELSE Ok(None, p)

parse_selection_set_allowing_empty(p) ==
    delimited_list(p, CurlyOpen, "parse_selection", CurlyClose)

parse_selection_set(p) ==
    unlocated_delimited_nonempty_list(p, CurlyOpen, "parse_selection", CurlyClose)

directives_item(directives) ==
    IF is_some(directives) THEN Some(directives[1].item) ELSE None

parse_fragment_match_name_first(t) ==
    CASE t.kind = "Name" -> "Name(_)"
      [] t = CurlyOpen -> "CurlyOpen"
      [] t = At -> "At"
      [] OTHER -> "_"

parse_fragment_match(t) ==
    CASE t = Name("on") -> "Name(on)"
      [] t = CurlyOpen -> "CurlyOpen"
      [] t.kind = "Name" /\ t # Name("on") -> "Name(_)"
      [] t = At -> "At"
      [] OTHER -> "_"

InlineFragment(start_pos, type_condition, directives, selection_set) ==
    [kind |-> "InlineFragment",
     node |-> start_end(start_pos, selection_set.end,
                 [type_condition |-> type_condition,
                  directives |-> directives_item(directives),
                  selection_set |-> selection_set.item])]

FragmentSpread(start_pos, frag_name, directives) ==
    [kind |-> "FragmentSpread",
     node |-> start_end(start_pos,
                 IF is_some(directives) THEN directives[1].end
                                        ELSE frag_name.end,
                 [name |-> frag_name,
                  directives |-> directives_item(directives)])]

parse_fragment(p) ==
    try(expect(p, Ellipsis), LAMBDA e :
        LET arm == parse_fragment_match(peek(e.p).item)
        IN  CASE arm = "Name(on)" ->
                    try(next(e.p), LAMBDA o :
                    try(expect_name(o.p), LAMBDA name :
                    try(call("parse_directives", name.p), LAMBDA directives :
                    try(call("parse_selection_set", directives.p),
                        LAMBDA selection_set :
                        Ok(InlineFragment(e.v.start, Some(name.v),
                                          directives.v, selection_set.v),
                           selection_set.p)))))
              [] arm = "CurlyOpen" ->
                    try(call("parse_selection_set", e.p),
                        LAMBDA selection_set :
                        Ok(InlineFragment(e.v.start, None, None,
                                          selection_set.v),
                           selection_set.p))
              [] arm = "Name(_)" ->
                    try(expect_name(e.p), LAMBDA frag_name :
                    try(call("parse_directives", frag_name.p),
                        LAMBDA directives :
                        Ok(FragmentSpread(e.v.start, frag_name.v,
                                          directives.v),
                           directives.p)))
              [] arm = "At" ->
                    try(call("parse_directives", e.p), LAMBDA directives :
                    try(call("parse_selection_set", directives.p),
                        LAMBDA selection_set :
                        Ok(InlineFragment(e.v.start, None, directives.v,
                                          selection_set.v),
                           selection_set.p)))
              [] OTHER -> next_unexpected(e.p))

Field_ending_at_name(alias, name, arguments, directives, selection_set) ==
    start_end(IF is_some(alias) THEN alias[1].start ELSE name.start,
              name.end,
              [alias |-> alias,
               name |-> name,
               arguments |-> arguments,
               directives |-> directives_item(directives),
               selection_set |->
                   IF is_some(selection_set)
                   THEN Some(selection_set[1].item) ELSE None])

Field(alias, name, arguments, directives, selection_set) ==
    start_end(IF is_some(alias) THEN alias[1].start ELSE name.start,
              IF is_some(selection_set) THEN selection_set[1].end
              ELSE IF is_some(directives) THEN directives[1].end
              ELSE IF is_some(arguments) THEN arguments[1].end
              ELSE name.end,
              [alias |-> alias,
               name |-> name,
               arguments |-> arguments,
               directives |-> directives_item(directives),
               selection_set |->
                   IF is_some(selection_set)
                   THEN Some(selection_set[1].item) ELSE None])

parse_field_keeping_alias(p) ==
    try(expect_name(p), LAMBDA first :
    try(skip(first.p, Colon), LAMBDA c :
    try(IF is_some(c.v) THEN expect_name(c.p) ELSE Ok(first.v, c.p),
        LAMBDA name :
    try(call("parse_arguments", name.p), LAMBDA arguments :
    try(call("parse_directives", arguments.p), LAMBDA directives :
    try(call("parse_optional_selection_set", directives.p),
        LAMBDA selection_set :
        Ok(Field(Some(first.v),
                 name.v, arguments.v, directives.v, selection_set.v),
           selection_set.p)))))))

parse_field(p) ==
    try(expect_name(p), LAMBDA first :
    try(skip(first.p, Colon), LAMBDA c :
    try(IF is_some(c.v) THEN expect_name(c.p) ELSE Ok(first.v, c.p),
        LAMBDA name :
    try(call("parse_arguments", name.p), LAMBDA arguments :
    try(call("parse_directives", arguments.p), LAMBDA directives :
    try(call("parse_optional_selection_set", directives.p),
        LAMBDA selection_set :
        Ok(Field(IF is_some(c.v) THEN Some(first.v) ELSE None,
                 name.v, arguments.v, directives.v, selection_set.v),
           selection_set.p)))))))

parse_selection(p) ==
    IF peek(p).item = Ellipsis
    THEN call("parse_fragment", p)
    ELSE try(call("parse_field", p), LAMBDA f :
             Ok([kind |-> "Field", node |-> f.v], f.p))

(***************************************************************************)
(* Definitions and documents.                                              *)
(***************************************************************************)
parse_operation_definition(p) ==
    IF peek(p).item = CurlyOpen
    THEN try(call("parse_selection_set", p), LAMBDA selection_set :
             Ok(start_end(selection_set.v.start, selection_set.v.end,
                    [operation_type |-> "Query",
                     name |-> None,
                     variable_definitions |-> None,
                     directives |-> None,
                     selection_set |-> selection_set.v.item]),
                selection_set.p))
    ELSE try(call("parse_operation_type", p), LAMBDA operation_type :
         try(IF peek(operation_type.p).item.kind = "Name"
             THEN try(expect_name(operation_type.p), LAMBDA n :
                      Ok(Some(n.v), n.p))
             ELSE Ok(None, operation_type.p), LAMBDA name :
         try(call("parse_variable_definitions", name.p),
             LAMBDA variable_definitions :
         try(call("parse_directives", variable_definitions.p),
             LAMBDA directives :
         try(call("parse_selection_set", directives.p), LAMBDA selection_set :
             Ok(start_end(peek(p).start, selection_set.v.end,
                    [operation_type |-> operation_type.v.item,
                     name |-> name.v,
                     variable_definitions |-> variable_definitions.v,
                     directives |-> directives_item(directives.v),
                     selection_set |-> selection_set.v.item]),
                selection_set.p))))))

parse_fragment_definition_any_name(p) ==
    try(expect(p, Name("fragment")), LAMBDA f :
    try(expect_name(f.p), LAMBDA name :
    try(expect(name.p, Name("on")), LAMBDA o :
    try(expect_name(o.p), LAMBDA type_cond :
    try(call("parse_directives", type_cond.p), LAMBDA directives :
    try(call("parse_selection_set", directives.p), LAMBDA selection_set :
        Ok(start_end(f.v.start, selection_set.v.end,
               [name |-> name.v,
                type_condition |-> type_cond.v,
                directives |-> directives_item(directives.v),
                selection_set |-> selection_set.v.item]),
           selection_set.p)))))))

parse_fragment_definition(p) ==
    try(expect(p, Name("fragment")), LAMBDA f :
    try(expect_name(f.p), LAMBDA name :
        IF name.v.item = "on"
        THEN Err(map(name.v, UnexpectedToken(Name("on")))) ELSE
    try(expect(name.p, Name("on")), LAMBDA o :
    try(expect_name(o.p), LAMBDA type_cond :
    try(call("parse_directives", type_cond.p), LAMBDA directives :
    try(call("parse_selection_set", directives.p), LAMBDA selection_set :
        Ok(start_end(f.v.start, selection_set.v.end,
               [name |-> name.v,
                type_condition |-> type_cond.v,
                directives |-> directives_item(directives.v),
                selection_set |-> selection_set.v.item]),
           selection_set.p)))))))

parse_definition_reporting_lookahead(p) ==
    LET t == peek(p).item
    IN  CASE t = CurlyOpen \/ t = Name("query") \/ t = Name("mutation") ->
                try(call("parse_operation_definition", p), LAMBDA o :
                    Ok([kind |-> "Operation", node |-> o.v], o.p))
          [] t = Name("fragment") ->
                try(call("parse_fragment_definition", p), LAMBDA f :
                    Ok([kind |-> "Fragment", node |-> f.v], f.p))
          [] OTHER -> Err(map(peek(p), UnexpectedToken(peek(p).item)))

parse_definition(p) ==
    LET t == peek(p).item
    IN  CASE t = CurlyOpen \/ t = Name("query") \/ t = Name("mutation") ->
                try(call("parse_operation_definition", p), LAMBDA o :
                    Ok([kind |-> "Operation", node |-> o.v], o.p))
          [] t = Name("fragment") ->
                try(call("parse_fragment_definition", p), LAMBDA f :
                    Ok([kind |-> "Fragment", node |-> f.v], f.p))
          [] OTHER -> next_unexpected(p)

call(f, p) ==
    CASE f = "parse_definition" -> parse_definition(p)
      [] f = "parse_operation_definition" -> parse_operation_definition(p)
      [] f = "parse_operation_type" -> parse_operation_type(p)
      [] f = "parse_fragment_definition" -> parse_fragment_definition(p)
      [] f = "parse_optional_selection_set" -> parse_optional_selection_set(p)
      [] f = "parse_selection_set" -> parse_selection_set(p)
      [] f = "parse_selection" -> parse_selection(p)
      [] f = "parse_fragment" -> parse_fragment(p)
      [] f = "parse_field" -> parse_field(p)
      [] f = "parse_arguments" -> parse_arguments(p)
      [] f = "parse_argument" -> parse_argument(p)
      [] f = "parse_variable_definitions" -> parse_variable_definitions(p)
      [] f = "parse_variable_definition" -> parse_variable_definition(p)
      [] f = "parse_directives" -> parse_directives(p)
      [] f = "parse_directive" -> parse_directive(p)
      [] f = "parse_type" -> parse_type(p)
      [] f = "parse_value_literal" -> parse_value_literal(p, FALSE)
      [] f = "parse_value_literal_constant" -> parse_value_literal(p, TRUE)
      [] f = "parse_object_field" -> parse_object_field(p, FALSE)
      [] f = "parse_object_field_constant" -> parse_object_field(p, TRUE)

parse_document_loop_single(p, defs) ==
    try(call("parse_definition", p), LAMBDA d : Ok(Append(defs, d.v), d.p))

RECURSIVE parse_document_loop(_, _)
parse_document_loop(p, defs) ==
    try(call("parse_definition", p), LAMBDA d :
        IF peek(d.p).item = EndOfFile
        THEN Ok(Append(defs, d.v), d.p)
        ELSE parse_document_loop(d.p, Append(defs, d.v)))

parse_document(p) == parse_document_loop(p, <<>>)

parse_document_source(s) == parse_document(Lexer(s))

(***************************************************************************)
(* The state machine: a client holds a source text, extends it by one      *)
(* lexeme at a time and has it parsed anew after every extension.  A       *)
(* source whose parse failed at a token is not extended: the parser stops  *)
(* at its first error, so every extension fails in the same way.           *)
(***************************************************************************)
Alphabet ==
    Names \cup {"1", "{", "}", "(", ")", "[", "]", "...", ":", "=", "@", "$",
                "!", "|"}

Seeds ==
    { <<>>,
      <<"{", "a">>,
      <<"{", "a", "}">>,
      <<"{", "a", "}", "{">>,
      <<"{", "a", ":">>,
      <<"{", "a", "{", "a", "}">>,
      <<"{", "a", "(", "a", ":">>,
      <<"{", "a", "(", "a", ":", "[", "$", "a", "]", ")", "@">>,
      <<"{", "...">>,
      <<"{", "...", "on", "a", "@", "a", "{", "a", "}">>,
      <<"{", "...", "@", "a", "{", "a", "}">>,
      <<"{", "...", "a", "@", "a">>,
      <<"mutation", "a", "@", "a", "{">>,
      <<"query", "(", "$", "a", ":">>,
      <<"query", "(", "$", "a", ":", "a", "!">>,
      <<"query", "(", "$", "a", ":", "[", "a", "!">>,
      <<"query", "(", "$", "a", ":", "[", "a", "!", "]", "!", ")", "{">>,
      <<"query", "(", "$", "a", ":", "a", "=">>,
      <<"query", "(", "$", "a", ":", "a", "=", "[", "a", "]", ")", "{">>,
      <<"fragment">>,
      <<"fragment", "a", "on", "a", "{">>,
      <<"fragment", "a", "on", "a", "@", "a", "{">> }

Extensible(r) == IF r.ok THEN TRUE ELSE r.e.item = UnexpectedEndOfFile

Init ==
    /\ source \in Seeds
    /\ typed = 0
    /\ result = parse_document_source(source)

Accept(l) ==
    LET r == parse_document_source(Append(source, l))
    IN  /\ typed < MaxEdits
        /\ Extensible(result)
        /\ r.ok
        /\ source' = Append(source, l)
        /\ typed' = typed + 1
        /\ result' = r

Reject(l) ==
    LET r == parse_document_source(Append(source, l))
    IN  /\ typed < MaxEdits
        /\ Extensible(result)
        /\ ~r.ok
        /\ source' = Append(source, l)
        /\ typed' = typed + 1
        /\ result' = r

Next == \E l \in Alphabet : Accept(l) \/ Reject(l)

Spec == Init /\ [][Next]_vars

(***************************************************************************)
(* Reading a state: the lexed source, its prefixes and suffixes, and the   *)
(* nodes of a returned document.                                           *)
(***************************************************************************)
Toks == Lexer(source)

Last == Len(source)

Suffix(toks, k) == SubSeq(toks, k, Len(toks))

Front == SubSeq(source, 1, Len(source) - 1)

FrontExtensible ==
    /\ source # <<>>
    /\ Extensible(parse_document_source(Front))

Count(l, i, j) == Cardinality({k \in i..j : source[k] = l})

TokenAt(toks, pos) == CHOOSE k \in 1..Len(toks) : toks[k].start = pos

Range(f) == {f[i] : i \in DOMAIN f}

RECURSIVE SelectionSetsIn(_)
SelectionSetsIn(set) ==
    {set} \cup UNION {
        CASE sel.kind = "Field" ->
                IF is_some(sel.node.item.selection_set)
                THEN SelectionSetsIn(sel.node.item.selection_set[1])
                ELSE {}
          [] sel.kind = "InlineFragment" ->
                SelectionSetsIn(sel.node.item.selection_set)
          [] OTHER -> {}
        : sel \in Range(set) }

Definitions == IF result.ok THEN Range(result.v) ELSE {}

SelectionSets ==
    UNION {SelectionSetsIn(d.node.item.selection_set) : d \in Definitions}

Selections == UNION {Range(set) : set \in SelectionSets}

Fields == {sel.node : sel \in {x \in Selections : x.kind = "Field"}}

Operations == {d.node : d \in {x \in Definitions : x.kind = "Operation"}}

Fragments == {d.node : d \in {x \in Definitions : x.kind = "Fragment"}}

DirectiveLists ==
    {d.node.item.directives : d \in Definitions}
      \cup {sel.node.item.directives : sel \in Selections}

Directives == UNION {Range(l[1]) : l \in {x \in DirectiveLists : is_some(x)}}

ArgumentLists ==
    {f.item.arguments : f \in Fields}
      \cup {d.item.arguments : d \in Directives}

VariableDefinitionLists == {o.item.variable_definitions : o \in Operations}

VariableDefinitions ==
    UNION {Range(l[1].item.items) :
             l \in {x \in VariableDefinitionLists : is_some(x)}}

Arguments ==
    UNION {Range(l[1].item.items) : l \in {x \in ArgumentLists : is_some(x)}}

RECURSIVE HasVariable(_)
HasVariable(value) ==
    CASE value.item.kind = "Variable" -> TRUE
      [] value.item.kind = "List" ->
            \E i \in 1..Len(value.item.items) : HasVariable(value.item.items[i])
      [] value.item.kind = "Object" ->
            \E i \in 1..Len(value.item.items) :
                HasVariable(value.item.items[i][2])
      [] OTHER -> FALSE

(***************************************************************************)
(* C1: every selection set of a returned document (of an operation, a      *)
(* fragment definition, an inline fragment, a field) holds at least one    *)
(* selection; a source whose last two lexemes are an empty `{ }` in        *)
(* selection-set position (outside parentheses) fails with                 *)
(* UnexpectedToken(CurlyClose) at the span of that `}`.                    *)
(***************************************************************************)
C1_SelectionSetsNonEmpty ==
    LET toks == Toks IN
    /\ \A set \in SelectionSets : Len(set) >= 1
    /\ ( /\ Last >= 2
         /\ source[Last - 1] = "{"
         /\ source[Last] = "}"
         /\ Count("(", 1, Last) = Count(")", 1, Last)
         /\ FrontExtensible )
       => result = Err(map(toks[Last], UnexpectedToken(CurlyClose)))

C1_Witness ==
    /\ result.ok
    /\ Cardinality(SelectionSets) >= 2
    /\ \E sel \in Selections : sel.kind = "InlineFragment"

C1_EmptyReached ==
    /\ Last >= 2
    /\ source[Last - 1] = "{"
    /\ source[Last] = "}"
    /\ Count("(", 1, Last) = Count(")", 1, Last)
    /\ FrontExtensible

(***************************************************************************)
(* C2: wherever the source holds `...`, parse_fragment started there       *)
(* dispatches on the token after it: `on` gives an InlineFragment whose    *)
(* type condition is the following name, with directives exactly when an   *)
(* `@` follows that name; `{` gives an InlineFragment without type         *)
(* condition and without directives; any other name gives a                *)
(* FragmentSpread of that name (never `on`) that takes directives exactly  *)
(* when an `@` follows and consumes no selection set; `@` gives an         *)
(* InlineFragment without type condition and with directives; every       *)
(* other token fails, at that token, with UnexpectedToken (at the end of   *)
(* the input with UnexpectedEndOfFile).  Every InlineFragment has a        *)
(* non-empty selection set.                                                *)
(***************************************************************************)
FragmentDispatch(p) ==
    LET r == parse_fragment(p)
        t == p[2].item
        frag == r.v.node.item
    IN  CASE t = Name("on") ->
                r.ok => /\ r.v.kind = "InlineFragment"
                        /\ is_some(frag.type_condition)
                        /\ frag.type_condition[1] = map(p[3], p[3].item.text)
                        /\ p[3].item.kind = "Name"
                        /\ is_some(frag.directives) <=> p[4].item = At
                        /\ Len(frag.selection_set) >= 1
          [] t = CurlyOpen ->
                r.ok => /\ r.v.kind = "InlineFragment"
                        /\ frag.type_condition = None
                        /\ frag.directives = None
                        /\ Len(frag.selection_set) >= 1
          [] t.kind = "Name" /\ t # Name("on") ->
                /\ p[3].item # At => r.ok /\ r.p = SubSeq(p, 3, Len(p))
                /\ r.ok => /\ r.v.kind = "FragmentSpread"
                           /\ DOMAIN frag = {"name", "directives"}
                           /\ frag.name = map(p[2], t.text)
                           /\ frag.name.item # "on"
                           /\ is_some(frag.directives) <=> p[3].item = At
                           /\ peek(r.p).item # At
          [] t = At ->
                r.ok => /\ r.v.kind = "InlineFragment"
                        /\ frag.type_condition = None
                        /\ is_some(frag.directives)
                        /\ Len(frag.directives[1]) >= 1
                        /\ Len(frag.selection_set) >= 1
          [] t = EndOfFile ->
                r = Err(map(p[2], UnexpectedEndOfFile))
          [] OTHER ->
                r = Err(map(p[2], UnexpectedToken(t)))

C2_SpreadReached ==
    /\ result.ok
    /\ \E sel \in Selections :
          sel.kind = "FragmentSpread" /\ is_some(sel.node.item.directives)

C2_DirectiveOnlyReached ==
    /\ result.ok
    /\ \E sel \in Selections :
          /\ sel.kind = "InlineFragment"
          /\ sel.node.item.type_condition = None
          /\ is_some(sel.node.item.directives)

C2_OtherReached ==
    \E k \in 1..(Last - 1) : source[k] = "..." /\ source[k + 1] = ":"

(***************************************************************************)
(* C3: no default value of a variable definition holds a variable, at any  *)
(* depth of lists and objects, in a returned document or in any variable   *)
(* definition parsed from a `$` of the source; a `$` typed inside a        *)
(* default value fails with UnexpectedToken(Dollar) at that `$`; an        *)
(* argument value `$ name` is accepted as a variable.                      *)
(***************************************************************************)
Depth(i, j) ==
    Count("[", i, j) + Count("{", i, j) - Count("]", i, j) - Count("}", i, j)

InDefault(k) ==
    \E j \in 1..(k - 1) :
        /\ source[j] = "="
        /\ \A i \in (j + 1)..(k - 1) : Depth(j + 1, i) > 0

C3_ConstantDefaults ==
    LET toks == Toks IN
    /\ \A vd \in VariableDefinitions :
          is_some(vd[2].default_value) => ~HasVariable(vd[2].default_value[1])
    /\ \A k \in 1..Last :
          source[k] = "$" =>
              LET r == parse_variable_definition(Suffix(toks, k))
              IN  (r.ok /\ is_some(r.v.item[2].default_value))
                      => ~HasVariable(r.v.item[2].default_value[1])
    /\ (Last >= 1 /\ source[Last] = "$" /\ InDefault(Last) /\ FrontExtensible)
          => result = Err(map(toks[Last], UnexpectedToken(Dollar)))
    /\ \A k \in 1..(Last - 3) :
          ( /\ source[k] \in Names
            /\ source[k + 1] = ":"
            /\ source[k + 2] = "$"
            /\ source[k + 3] \in Names )
          => LET r == parse_argument(Suffix(toks, k))
             IN  /\ r.ok
                 /\ r.v.item[2].item = [kind |-> "Variable", name |-> source[k + 3]]

C3_Witness ==
    /\ result.ok
    /\ \E vd \in VariableDefinitions :
          /\ is_some(vd[2].default_value)
          /\ vd[2].default_value[1].item.kind = "List"
          /\ vd[2].default_value[1].item.items # <<>>

C3_DollarInDefaultReached ==
    /\ Last >= 2
    /\ source[Last] = "$"
    /\ source[Last - 1] = "["
    /\ InDefault(Last)
    /\ FrontExtensible

C3_VariableArgumentReached ==
    /\ result.ok
    /\ \E arg \in Arguments :
          arg[2].item.kind = "List" /\ HasVariable(arg[2])

(***************************************************************************)
(* C4: an operation of a returned document that starts on `{` has          *)
(* operation_type Query, no name, no variable definitions, no directives,  *)
(* and the span of the selection set parsed from that `{`; an operation    *)
(* has type Mutation only when it starts on the keyword `mutation`, and    *)
(* an operation that starts on `query` has type Query.                     *)
(***************************************************************************)
C4_BareOperation ==
    LET toks == Toks IN
    \A o \in Operations :
        LET k == TokenAt(toks, o.start)
            set == parse_selection_set(Suffix(toks, k))
        IN  /\ source[k] \in {"{", "query", "mutation"}
            /\ source[k] = "{" =>
                  /\ o.item.operation_type = "Query"
                  /\ o.item.name = None
                  /\ o.item.variable_definitions = None
                  /\ o.item.directives = None
                  /\ set.ok
                  /\ o.start = set.v.start
                  /\ o.end = set.v.end
                  /\ o.item.selection_set = set.v.item
            /\ o.item.operation_type = "Mutation" <=> source[k] = "mutation"

C4_Witness ==
    LET toks == Toks IN
    /\ result.ok
    /\ Len(result.v) >= 2
    /\ \E o \in Operations : source[TokenAt(toks, o.start)] = "{" /\ o.start > 0

C4_MutationReached ==
    /\ result.ok
    /\ \E o \in Operations :
          /\ o.item.operation_type = "Mutation"
          /\ is_some(o.item.name)
          /\ is_some(o.item.directives)

(***************************************************************************)
(* C5: wherever the source holds `fragment on`, parse_fragment_definition  *)
(* started at that `fragment` fails with UnexpectedToken(Name("on")) at    *)
(* the span of that `on`, and so does the parse of a source that ends      *)
(* with `fragment on` where a definition starts; no fragment of a          *)
(* returned document is named `on`.                                        *)
(***************************************************************************)
AtDefinitionStart(k) ==
    \/ k = 1
    \/ /\ k > 1
       /\ source[k - 1] = "}"
       /\ Count("{", 1, k - 1) = Count("}", 1, k - 1)
       /\ Count("(", 1, k - 1) = Count(")", 1, k - 1)

C5_FragmentNamedOn ==
    LET toks == Toks IN
    /\ \A f \in Fragments : f.item.name.item # "on"
    /\ \A k \in 1..(Last - 1) :
          (source[k] = "fragment" /\ source[k + 1] = "on") =>
              parse_fragment_definition(Suffix(toks, k))
                  = Err(map(toks[k + 1], UnexpectedToken(Name("on"))))
    /\ ( /\ Last >= 2
         /\ source[Last - 1] = "fragment"
         /\ source[Last] = "on"
         /\ AtDefinitionStart(Last - 1)
         /\ FrontExtensible )
       => result = Err(map(toks[Last], UnexpectedToken(Name("on"))))

C5_Witness ==
    /\ Last >= 2
    /\ source[Last - 1] = "fragment"
    /\ source[Last] = "on"
    /\ AtDefinitionStart(Last - 1)
    /\ Last > 2
    /\ FrontExtensible

C5_FragmentReached ==
    /\ result.ok
    /\ Fragments # {}

(***************************************************************************)
(* C6: in a returned document every directives list (of an operation, a    *)
(* fragment definition, a fragment spread, an inline fragment, a field),   *)
(* every arguments list (of a field, of a directive) and every variable    *)
(* definitions list that is present holds at least one item; started at    *)
(* any token of the source, parse_directives, parse_arguments and          *)
(* parse_variable_definitions return None exactly when that token does     *)
(* not open the group, and a present group is non-empty; `( )` is          *)
(* rejected at the `)`.                                                    *)
(***************************************************************************)
C6_PresentListsNonEmpty ==
    LET toks == Toks IN
    /\ \A l \in DirectiveLists : is_some(l) => Len(l[1]) >= 1
    /\ \A l \in ArgumentLists : is_some(l) => Len(l[1].item.items) >= 1
    /\ \A l \in VariableDefinitionLists :
          is_some(l) => Len(l[1].item.items) >= 1
    /\ \A k \in 1..(Last + 1) :
          LET d == parse_directives(Suffix(toks, k))
              a == parse_arguments(Suffix(toks, k))
              v == parse_variable_definitions(Suffix(toks, k))
          IN  /\ d.ok => /\ is_some(d.v) <=> toks[k].item = At
                         /\ is_some(d.v) => Len(d.v[1].item) >= 1
              /\ a.ok => /\ is_some(a.v) <=> toks[k].item = ParenOpen
                         /\ is_some(a.v) => Len(a.v[1].item.items) >= 1
              /\ v.ok => /\ is_some(v.v) <=> toks[k].item = ParenOpen
                         /\ is_some(v.v) => Len(v.v[1].item.items) >= 1
    /\ ( /\ Last >= 2
         /\ source[Last - 1] = "("
         /\ source[Last] = ")"
         /\ FrontExtensible )
       => result = Err(map(toks[Last], UnexpectedToken(ParenClose)))

C6_Witness ==
    /\ result.ok
    /\ \E l \in DirectiveLists : is_some(l)
    /\ \E l \in DirectiveLists : ~is_some(l)
    /\ \E l \in ArgumentLists : is_some(l)

C6_VariableDefinitionsReached ==
    /\ result.ok
    /\ \E l \in VariableDefinitionLists : is_some(l)

C6_EmptyParensReached ==
    /\ Last >= 2
    /\ source[Last - 1] = "("
    /\ source[Last] = ")"
    /\ FrontExtensible

(***************************************************************************)
(* C7: no returned document comes from a source with two consecutive `!`;  *)
(* a source that ends with `! !` after an extensible prefix fails with     *)
(* UnexpectedToken(ExclamationMark) at the second `!`; parse_type started  *)
(* at any token of the source never consumes two consecutive `!`, yields   *)
(* Named or NonNullNamed from a name and List or NonNullList from `[`,     *)
(* and the non-null form exactly when its last consumed token is `!`.      *)
(***************************************************************************)
C7_NoDoubleNonNull ==
    LET toks == Toks IN
    /\ result.ok =>
          \A k \in 1..(Last - 1) : ~(source[k] = "!" /\ source[k + 1] = "!")
    /\ ( /\ Last >= 2
         /\ source[Last - 1] = "!"
         /\ source[Last] = "!"
         /\ FrontExtensible )
       => result = Err(map(toks[Last], UnexpectedToken(ExclamationMark)))
    /\ \A k \in 1..Last :
          LET p == Suffix(toks, k)
              r == parse_type(p)
              n == Len(p) - Len(r.p)
          IN  r.ok =>
                /\ \A i \in 1..(n - 1) :
                      ~(p[i].item = ExclamationMark
                          /\ p[i + 1].item = ExclamationMark)
                /\ r.v.item.kind \in {"Named", "NonNullNamed"}
                      <=> p[1].item.kind = "Name"
                /\ r.v.item.kind \in {"List", "NonNullList"}
                      <=> p[1].item = BracketOpen
                /\ r.v.item.kind \in {"NonNullNamed", "NonNullList"}
                      <=> p[n].item = ExclamationMark
                /\ r.v.start = p[1].start
                /\ r.v.end = p[n].end

C7_Witness ==
    /\ Last >= 2
    /\ source[Last - 1] = "!"
    /\ source[Last] = "!"
    /\ Last >= 4
    /\ source[Last - 3] = "["
    /\ FrontExtensible

C7_VariableListReached ==
    /\ Last >= 4
    /\ source[Last - 3] = ":"
    /\ source[Last - 1] = "!"
    /\ source[Last] = "!"
    /\ FrontExtensible

C7_NonNullListReached ==
    /\ result.ok
    /\ \E vd \in VariableDefinitions :
          /\ vd[2].var_type.item.kind = "NonNullList"
          /\ vd[2].var_type.item.inner.kind = "NonNullNamed"

(***************************************************************************)
(* C8: a returned document leaves only EndOfFile unconsumed, holds at      *)
(* least one definition, holds as many definitions as the source has       *)
(* top-level forms (closing braces that return to nesting depth 0), and    *)
(* holds them in source order: the first starts at the first token, each   *)
(* next one starts after the previous one's end, the last ends with the    *)
(* last token.  A token that follows a complete document and starts no     *)
(* definition fails the parse with UnexpectedToken at that token.          *)
(***************************************************************************)
TopLevelForms ==
    Cardinality({k \in 1..Last :
        /\ source[k] = "}"
        /\ Count("{", 1, k) = Count("}", 1, k)
        /\ Count("(", 1, k) = Count(")", 1, k)})

C8_WholeDocument ==
    LET toks == Toks IN
    /\ result.ok =>
          /\ result.p = << toks[Last + 1] >>
          /\ Len(result.v) >= 1
          /\ Len(result.v) = TopLevelForms
          /\ result.v[1].node.start = toks[1].start
          /\ result.v[Len(result.v)].node.end = toks[Last].end
          /\ \A i \in 1..(Len(result.v) - 1) :
                /\ result.v[i].node.end <= result.v[i + 1].node.start
                /\ toks[TokenAt(toks, result.v[i + 1].node.start) - 1].end
                      = result.v[i].node.end
          /\ \A i \in 1..Len(result.v) :
                result.v[i].kind = "Fragment"
                    <=> source[TokenAt(toks, result.v[i].node.start)] = "fragment"
    /\ ( /\ Last >= 1
         /\ source[Last] \notin {"{", "query", "mutation", "fragment"}
         /\ parse_document_source(Front).ok )
       => result = Err(map(toks[Last], UnexpectedToken(Token(source[Last]))))

C8_Witness ==
    /\ result.ok
    /\ Len(result.v) >= 2

C8_ExtraTokenReached ==
    /\ Last >= 1
    /\ source[Last] = "a"
    /\ parse_document_source(Front).ok

(***************************************************************************)
(* C9: a failed parse never reports UnexpectedToken(EndOfFile): its error  *)
(* is either UnexpectedEndOfFile with the zero-width span at the end of    *)
(* the input, or UnexpectedToken of a token of the source with that        *)
(* token's span (the last one when the source without it was              *)
(* extensible); the empty source fails with UnexpectedEndOfFile at 0; and  *)
(* every parse function started on the EndOfFile lookahead, where it       *)
(* requires a token, fails with UnexpectedEndOfFile at the end of input.   *)
(***************************************************************************)
C9_EndOfFileError ==
    LET toks == Toks
        eof == toks[Last + 1]
        at_eof == Err(map(eof, UnexpectedEndOfFile))
    IN  /\ eof.start = eof.end
        /\ \A k \in 1..Last : toks[k].end <= eof.start
        /\ source = <<>> => result = Err(zero_width(0, UnexpectedEndOfFile))
        /\ ~result.ok =>
              /\ result.e.item # UnexpectedToken(EndOfFile)
              /\ \/ result = at_eof
                 \/ \E k \in 1..Last :
                        result = Err(map(toks[k], UnexpectedToken(toks[k].item)))
              /\ FrontExtensible =>
                    \/ result = at_eof
                    \/ result = Err(map(toks[Last],
                                        UnexpectedToken(toks[Last].item)))
        /\ parse_definition(<<eof>>) = at_eof
        /\ parse_operation_definition(<<eof>>) = at_eof
        /\ parse_operation_type(<<eof>>) = at_eof
        /\ parse_fragment_definition(<<eof>>) = at_eof
        /\ parse_selection_set(<<eof>>) = at_eof
        /\ parse_selection(<<eof>>) = at_eof
        /\ parse_fragment(<<eof>>) = at_eof
        /\ parse_field(<<eof>>) = at_eof
        /\ parse_argument(<<eof>>) = at_eof
        /\ parse_variable_definition(<<eof>>) = at_eof
        /\ parse_directive(<<eof>>) = at_eof
        /\ parse_type(<<eof>>) = at_eof

C9_Witness ==
    /\ ~result.ok
    /\ result.e.item = UnexpectedEndOfFile
    /\ Last >= 3
    /\ source[Last] = "..."

C9_EmptyReached == source = <<>> /\ ~result.ok

C9_UnexpectedTokenReached ==
    /\ ~result.ok
    /\ result.e.item.kind = "UnexpectedToken"
    /\ FrontExtensible

(***************************************************************************)
(* C10: every field of a returned document, and every field that          *)
(* parse_field yields when started at a token of the source, starts at a   *)
(* name token; its alias is present exactly when a Colon follows that      *)
(* name, and then the alias is that first name and the field name is the   *)
(* name after the colon; otherwise the field name is the first name.       *)
(* Started at a token that is no name, parse_field fails at that token.    *)
(***************************************************************************)
FieldShape(toks, f) ==
    LET k == TokenAt(toks, f.start)
        first == map(toks[k], toks[k].item.text)
    IN  /\ toks[k].item.kind = "Name"
        /\ is_some(f.item.alias) <=> toks[k + 1].item = Colon
        /\ is_some(f.item.alias) =>
              /\ f.item.alias[1] = first
              /\ toks[k + 2].item.kind = "Name"
              /\ f.item.name = map(toks[k + 2], toks[k + 2].item.text)
        /\ ~is_some(f.item.alias) => f.item.name = first

C10_FieldAlias ==
    LET toks == Toks IN
    /\ \A f \in Fields : FieldShape(toks, f)
    /\ \A k \in 1..(Last + 1) :
          LET r == parse_field(Suffix(toks, k))
          IN  /\ r.ok => FieldShape(toks, r.v)
              /\ toks[k].item.kind # "Name" =>
                    r = IF k = Last + 1
                        THEN Err(map(toks[k], UnexpectedEndOfFile))
                        ELSE Err(map(toks[k], UnexpectedToken(toks[k].item)))

C10_Witness ==
    /\ result.ok
    /\ \E f \in Fields :
          /\ is_some(f.item.alias)
          /\ f.item.alias[1].item # f.item.name.item

C10_ColonFirstReached ==
    /\ Last >= 2
    /\ source[Last - 1] = "{"
    /\ source[Last] = ":"
    /\ FrontExtensible

(***************************************************************************)
(* C11: every spanned node that a parse function of the document parser    *)
(* builds when started at a token of the source (operation, fragment        *)
(* definition, inline fragment, fragment spread, field, argument,           *)
(* directive, variable definition and its name, type), and every spanned    *)
(* node of a returned document, has start <= end <= length of the source;   *)
(* the node starts at the first token the function consumed and ends at     *)
(* the end of the last token it consumed, so a field starts at its          *)
(* alias-or-name and ends with its last present component.                  *)
(***************************************************************************)
SourceLength(toks) == toks[Len(toks)].end

WellSpanned(toks, n) == n.start <= n.end /\ n.end <= SourceLength(toks)

Covers(toks, k, r, n) ==
    /\ WellSpanned(toks, n)
    /\ n.start = toks[k].start
    /\ n.end = toks[Len(toks) - Len(r.p)].end

BuiltAt(toks, k) ==
    LET p == Suffix(toks, k)
        operation == parse_operation_definition(p)
        fragment_def == parse_fragment_definition(p)
        fragment == parse_fragment(p)
        field == parse_field(p)
        argument == parse_argument(p)
        directive == parse_directive(p)
        var_def == parse_variable_definition(p)
        type == parse_type(p)
    IN  /\ operation.ok => Covers(toks, k, operation, operation.v)
        /\ fragment_def.ok => Covers(toks, k, fragment_def, fragment_def.v)
        /\ fragment.ok => Covers(toks, k, fragment, fragment.v.node)
        /\ field.ok => Covers(toks, k, field, field.v)
        /\ argument.ok => Covers(toks, k, argument, argument.v)
        /\ directive.ok => Covers(toks, k, directive, directive.v)
        /\ var_def.ok =>
              /\ Covers(toks, k, var_def, var_def.v)
              /\ WellSpanned(toks, var_def.v.item[1])
              /\ var_def.v.item[1].start = toks[k].start
              /\ var_def.v.item[1].end = toks[k + 1].end
              /\ WellSpanned(toks, var_def.v.item[2].var_type)
        /\ type.ok => Covers(toks, k, type, type.v)

Span(n) == [start |-> n.start, end |-> n.end]

DocumentNodes ==
    {Span(d.node) : d \in Definitions}
      \cup {Span(sel.node) : sel \in Selections}
      \cup {Span(f.item.name) : f \in Fields \cup Fragments}
      \cup {Span(f.item.type_condition) : f \in Fragments}
      \cup {Span(f.item.alias[1]) : f \in {x \in Fields : is_some(x.item.alias)}}
      \cup {Span(o.item.name[1]) :
               o \in {x \in Operations : is_some(x.item.name)}}
      \cup {Span(l[1]) :
               l \in {x \in ArgumentLists \cup VariableDefinitionLists :
                         is_some(x)}}
      \cup UNION {{Span(a[1]), Span(a[2])} : a \in Arguments}
      \cup UNION {{Span(v[1]), Span(v[2].var_type)} : v \in VariableDefinitions}
      \cup {Span(v[2].default_value[1]) :
               v \in {x \in VariableDefinitions :
                         is_some(x[2].default_value)}}
      \cup UNION {{Span(d), Span(d.item.name)} : d \in Directives}

C11_SpansWithinSource ==
    LET toks == Toks IN
    /\ \A n \in DocumentNodes : WellSpanned(toks, n)
    /\ \A k \in 1..Len(toks) : BuiltAt(toks, k)

C11_Witness ==
    /\ result.ok
    /\ \E f \in Fields :
          /\ is_some(f.item.arguments)
          /\ is_some(f.item.directives)
          /\ f.item.arguments[1].end < f.end
          /\ f.item.name.end < f.item.arguments[1].start

C11_DefaultReached ==
    /\ result.ok
    /\ \E v \in VariableDefinitions :
          /\ is_some(v[2].default_value)
          /\ v[2].var_type.end < v[2].default_value[1].start

C11_NestedFieldReached ==
    /\ result.ok
    /\ \E f \in Fields : is_some(f.item.selection_set)

(***************************************************************************)
(* The loop of parse_document, one iteration at a time.  `result` holds    *)
(* the loop's state while it runs: the definitions pushed so far and the   *)
(* parser.  The loop has returned once an iteration failed or left the     *)
(* lookahead at EndOfFile; `typed` counts the iterations.  The sources     *)
(* are documents of up to MaxDefinitions pieces, well-formed and not.      *)
(* The loop is sequential code that runs until it returns, and             *)
(* parse_document_step is total, so an iteration is enabled exactly while  *)
(* the loop has not returned: the loop is weakly fair in its iteration     *)
(* count.  The count is capped by the number of lexemes, which C12 shows   *)
(* is never reached.                                                       *)
(***************************************************************************)
Pieces ==
    { <<"query", "(", "$", "a", ":", "a", "!", ")", "@", "a", "@", "a",
        "{", "a", "}">>,
      <<"{", "a", "(", "a", ":", "{", "a", ":", "$", "a", "}", ")",
        "{", "a", "}", "}">>,
      <<"fragment", "a", "on", "a", "{", "...", "a", "}">>,
      <<"{", "}">>,
      <<"{">> }

RECURSIVE Documents(_)
Documents(n) ==
    IF n = 0
    THEN {<<>>}
    ELSE Documents(n - 1)
           \cup {d \o piece : d \in Documents(n - 1), piece \in Pieces}

parse_document_step_keeping_position(p, defs) ==
    try(call("parse_definition", p), LAMBDA d : Ok(defs, p))

parse_document_step(p, defs) ==
    try(call("parse_definition", p), LAMBDA d : Ok(Append(defs, d.v), d.p))

Returned ==
    IF result.ok
    THEN result.v # <<>> /\ peek(result.p).item = EndOfFile
    ELSE TRUE

LoopInit ==
    /\ source \in Documents(MaxDefinitions)
    /\ typed = 0
    /\ result = Ok(<<>>, Lexer(source))

Iterate ==
    /\ ~Returned
    /\ typed <= Len(source)
    /\ result' = parse_document_step(result.p, result.v)
    /\ typed' = typed + 1
    /\ UNCHANGED source

Iterating == ~Returned /\ typed <= Len(source) /\ typed' = typed + 1

LoopNext == Iterate

LoopSpec == LoopInit /\ [][LoopNext]_vars /\ WF_typed(Iterating)

(***************************************************************************)
(* C12: parse_document terminates on every source: the loop returns, with  *)
(* the result of parse_document; every iteration of the definition loop    *)
(* fails or consumes at least one token; so does every iteration of the    *)
(* directives loop and every item of a delimited list, wherever in the     *)
(* source it starts; no parse function moves the token position            *)
(* backwards; and parse_arguments, parse_variable_definitions,             *)
(* parse_directives and parse_optional_selection_set return None without   *)
(* consuming a token exactly when the lookahead is not their opening       *)
(* token.                                                                  *)
(***************************************************************************)
Items ==
    {"parse_definition", "parse_selection", "parse_argument",
     "parse_variable_definition", "parse_directive", "parse_value_literal",
     "parse_value_literal_constant", "parse_object_field",
     "parse_object_field_constant"}

Groups ==
    {"parse_arguments", "parse_variable_definitions", "parse_directives",
     "parse_optional_selection_set"}

Others ==
    {"parse_operation_definition", "parse_operation_type",
     "parse_fragment_definition", "parse_selection_set", "parse_fragment",
     "parse_field", "parse_type"}

Opening(f) ==
    CASE f \in {"parse_arguments", "parse_variable_definitions"} -> ParenOpen
      [] f = "parse_directives" -> At
      [] f = "parse_optional_selection_set" -> CurlyOpen

Forward(toks, k, r) ==
    r.ok => /\ Len(r.p) <= Len(toks) - k + 1
            /\ Len(r.p) >= 1
            /\ r.p = Suffix(toks, Len(toks) - Len(r.p) + 1)

Progress(toks, k) ==
    LET p == Suffix(toks, k)
    IN  /\ \A f \in Items \cup Groups \cup Others : Forward(toks, k, call(f, p))
        /\ \A f \in Items :
              LET r == call(f, p) IN r.ok => Len(r.p) < Len(p)
        /\ \A f \in Groups :
              LET r == call(f, p)
              IN  /\ peek(p).item # Opening(f) => r = Ok(None, p)
                  /\ peek(p).item = Opening(f) /\ r.ok =>
                        /\ r.v # None
                        /\ Len(r.p) < Len(p)

C12_Progress == LET toks == Toks IN \A k \in 1..Len(toks) : Progress(toks, k)

C12_IterationConsumes == ~result'.ok \/ Len(result'.p) < Len(result.p)

C12_Terminates ==
    /\ <>[](Returned /\ result = parse_document_source(source))
    /\ [][C12_IterationConsumes]_vars
    /\ [](~Returned => typed <= Len(source))
    /\ []C12_Progress

C12_Witness ==
    /\ Returned
    /\ result.ok
    /\ Len(result.v) >= 3
    /\ \E d \in Definitions :
          /\ d.kind = "Operation"
          /\ is_some(d.node.item.variable_definitions)
          /\ is_some(d.node.item.directives)
          /\ Len(d.node.item.directives[1]) >= 2

C12_FailedIterationReached ==
    /\ ~result.ok
    /\ source # <<>>
    /\ result.e.item.kind = "UnexpectedToken"
    /\ result.e.start > 0

(***************************************************************************)
(* The Rocket form handler (integrations/rocket_handlers.rs): a request    *)
(* built from the items of a form.  An item is a pair <<key, value>>.  A   *)
(* value either decodes as a form string or does not, and a decoded        *)
(* string either is JSON or is not.  A result is                           *)
(*   [ok |-> TRUE, v |-> request]   or   [ok |-> FALSE, e |-> message].    *)
(***************************************************************************)
Keys == {"query", "operation_name", "variables", "other"}

Values == {"a", "{}", "%"}

Success(x) == [ok |-> TRUE, v |-> x]

from_form_value(value) == IF value = "%" THEN Err(value) ELSE Success(value)

from_str(s) == IF s = "{}" THEN Success([json |-> s]) ELSE Err("description")

GraphQLRequest(query, operation_name, variables) ==
    [query |-> query, operation_name |-> operation_name,
     variables |-> variables]

RECURSIVE from_form_items_loop(_, _, _, _)
from_form_items_loop_last_wins(form_items, query, operation_name, variables) ==
    IF form_items = <<>>
    THEN IF is_some(query)
         THEN Success(GraphQLRequest(query[1], operation_name, variables))
         ELSE Err("Query parameter missing")
    ELSE LET key == Head(form_items)[1]
             value == Head(form_items)[2]
         IN  CASE key = "query" ->
                    IF is_some(query)
                    THEN Err("Query parameter must not occur more than once")
                    ELSE try(from_form_value(value), LAMBDA s :
                             from_form_items_loop(Tail(form_items), Some(s.v),
                                                  operation_name, variables))
               [] key = "operation_name" ->
                    try(from_form_value(value), LAMBDA s :
                        from_form_items_loop(Tail(form_items), query,
                                             Some(s.v), variables))
               [] key = "variables" ->
                    IF is_some(variables)
                    THEN Err("Variables parameter must not occur more than once")
                    ELSE try(from_form_value(value), LAMBDA s :
                         try(from_str(s.v), LAMBDA json :
                             from_form_items_loop(Tail(form_items), query,
                                                  operation_name,
                                                  Some(json.v))))
               [] OTHER ->
                    from_form_items_loop(Tail(form_items), query,
                                         operation_name, variables)

from_form_items_loop(form_items, query, operation_name, variables) ==
    IF form_items = <<>>
    THEN IF is_some(query)
         THEN Success(GraphQLRequest(query[1], operation_name, variables))
         ELSE Err("Query parameter missing")
    ELSE LET key == Head(form_items)[1]
             value == Head(form_items)[2]
         IN  CASE key = "query" ->
                    IF is_some(query)
                    THEN Err("Query parameter must not occur more than once")
                    ELSE try(from_form_value(value), LAMBDA s :
                             from_form_items_loop(Tail(form_items), Some(s.v),
                                                  operation_name, variables))
               [] key = "operation_name" ->
                    IF is_some(operation_name)
                    THEN Err("Operation name parameter must not occur more than once")
                    ELSE try(from_form_value(value), LAMBDA s :
                             from_form_items_loop(Tail(form_items), query,
                                                  Some(s.v), variables))
               [] key = "variables" ->
                    IF is_some(variables)
                    THEN Err("Variables parameter must not occur more than once")
                    ELSE try(from_form_value(value), LAMBDA s :
                         try(from_str(s.v), LAMBDA json :
                             from_form_items_loop(Tail(form_items), query,
                                                  operation_name,
                                                  Some(json.v))))
               [] OTHER ->
                    from_form_items_loop(Tail(form_items), query,
                                         operation_name, variables)

from_form_items(form_items) ==
    from_form_items_loop(form_items, None, None, None)

(***************************************************************************)
(* A client adds one item at a time to a form and has the request built    *)
(* from the items so far; `source` holds the items.                        *)
(***************************************************************************)
FormInit ==
    /\ source = <<>>
    /\ typed = 0
    /\ result = from_form_items(source)

Submit(key, value) ==
    /\ typed < MaxItems
    /\ source' = Append(source, <<key, value>>)
    /\ typed' = typed + 1
    /\ result' = from_form_items(source')

FormNext == \E key \in Keys, value \in Values : Submit(key, value)

FormSpec == FormInit /\ [][FormNext]_vars

(***************************************************************************)
(* C13: over form items whose values decode up to the first repeated key   *)
(* (all of them when no key is repeated), from_form_items returns Ok       *)
(* exactly when `query` occurs once and `operation_name` and `variables`   *)
(* at most once each, and then the request holds the decoded values; the   *)
(* first second occurrence of one of the three keys gives that key's       *)
(* "must not occur more than once" error whatever follows it; without a    *)
(* repeated key and without `query` the error is "Query parameter          *)
(* missing"; and the items with any other key can be removed without       *)
(* changing the result.                                                    *)
(***************************************************************************)
Known == {"query", "operation_name", "variables"}

Occurrences(key) == {i \in 1..Len(source) : source[i][1] = key}

Repeats == {i \in 1..Len(source) :
              /\ source[i][1] \in Known
              /\ \E j \in 1..(i - 1) : source[j][1] = source[i][1]}

FirstRepeat == CHOOSE i \in Repeats : \A j \in Repeats : i <= j

Decodes(item) ==
    CASE item[1] \in {"query", "operation_name"} -> from_form_value(item[2]).ok
      [] item[1] = "variables" ->
            from_form_value(item[2]).ok /\ from_str(item[2]).ok
      [] OTHER -> TRUE

DecodesUpTo(n) == \A i \in 1..n : Decodes(source[i])

Message(key) ==
    CASE key = "query" -> "Query parameter must not occur more than once"
      [] key = "operation_name" ->
            "Operation name parameter must not occur more than once"
      [] key = "variables" ->
            "Variables parameter must not occur more than once"

ValueOf(key) ==
    IF Occurrences(key) = {}
    THEN None
    ELSE Some(source[CHOOSE i \in Occurrences(key) : TRUE][2])

RECURSIVE WithoutOthers(_)
WithoutOthers(items) ==
    IF items = <<>>
    THEN <<>>
    ELSE IF Head(items)[1] \in Known
         THEN <<Head(items)>> \o WithoutOthers(Tail(items))
         ELSE WithoutOthers(Tail(items))

C13_FormItems ==
    /\ Repeats # {} /\ DecodesUpTo(FirstRepeat - 1) =>
          result = Err(Message(source[FirstRepeat][1]))
    /\ Repeats = {} /\ DecodesUpTo(Len(source)) =>
          /\ Occurrences("query") = {} =>
                result = Err("Query parameter missing")
          /\ Occurrences("query") # {} =>
                result = Success(GraphQLRequest(
                             ValueOf("query")[1],
                             ValueOf("operation_name"),
                             IF is_some(ValueOf("variables"))
                             THEN Some([json |-> ValueOf("variables")[1]])
                             ELSE None))
    /\ DecodesUpTo(Len(source)) =>
          (result.ok <=>
              /\ Cardinality(Occurrences("query")) = 1
              /\ Cardinality(Occurrences("operation_name")) <= 1
              /\ Cardinality(Occurrences("variables")) <= 1)
    /\ result = from_form_items(WithoutOthers(source))

C13_Witness ==
    /\ result.ok
    /\ Occurrences("other") # {}
    /\ is_some(result.v.operation_name)
    /\ is_some(result.v.variables)

C13_RepeatReached ==
    /\ Repeats # {}
    /\ DecodesUpTo(FirstRepeat - 1)
    /\ source[FirstRepeat][1] = "operation_name"
    /\ FirstRepeat < Len(source)

C13_MissingReached ==
    /\ Occurrences("other") # {}
    /\ result = Err("Query parameter missing")

=============================================================================
